---- MODULE Spec2Model ----
(***************************************************************************)
(* carrots: a scanner of permission bits (package carrots, carrots.go).    *)
(*                                                                         *)
(* Strings are sequences of one-character strings, so that the regular     *)
(* expressions, path.Base, filepath.Dir and filepath.Join are computed     *)
(* and not assumed.  A path is the sequence of its components; an absolute *)
(* path starts with the component "/".  An os.FileMode is its integer      *)
(* value without the ModeDir bit (1<<31, a multiple of 01000), which the   *)
(* field isDir of a FileInfo carries.                                      *)
(*                                                                         *)
(* The file system is the environment: what os.Lstat and the directory     *)
(* read of filepath.Walk answer is drawn, at the call, from the outcomes   *)
(* LstatResults and ReadDirResults allow.                                  *)
(***************************************************************************)
EXTENDS Integers, Sequences, FiniteSets, TLC

VARIABLES cwd, root, pc, scanner, stack, walkErr, ret, status, visited

vars == <<cwd, root, pc, scanner, stack, walkErr, ret, status, visited>>

\* The most entries a directory read returns.
MaxFiles == 2

(***************************************************************************)
(* Strings, numbers and paths                                              *)
(***************************************************************************)

\* The value of an octal literal, given by its digits: 0700 is <<0,7,0,0>>.
RECURSIVE Octal(_)
Octal(ds) ==
  IF ds = <<>> THEN 0 ELSE 8 * Octal(SubSeq(ds, 1, Len(ds) - 1)) + ds[Len(ds)]

\* The octal digits of n, most significant first (no digit for 0).
RECURSIVE OctDigits(_)
OctDigits(n) ==
  IF n = 0 THEN <<>> ELSE Append(OctDigits(n \div 8), n % 8)

\* fmt's verb %04o: octal, padded with zeros to a width of at least 4.
RECURSIVE PadZero(_)
PadZero(ds) == IF Len(ds) >= 4 THEN ds ELSE PadZero(<<0>> \o ds)

Sprintf04o(n) == PadZero(OctDigits(n))

\* os.FileMode bits above the nine permission bits.
ModeSetuid == 2 ^ 23
ModeSetgid == 2 ^ 22
ModeSticky == 2 ^ 20

\* The file names of the rules.
dotssh == <<".", "s", "s", "h">>
config == <<"c", "o", "n", "f", "i", "g">>
authorized_keys ==
  <<"a", "u", "t", "h", "o", "r", "i", "z", "e", "d", "_", "k", "e", "y", "s">>
known_hosts == <<"k", "n", "o", "w", "n", "_", "h", "o", "s", "t", "s">>

\* Other file names of the file systems considered.
Slash == <<"/">>
Dot == <<".">>
homeName == <<"r", "o", "o", "t">>
id_k == <<"i", "d", "_", "k">>
id_k_pub == <<"i", "d", "_", "k", ".", "p", "u", "b">>
id__pub == <<"i", "d", "_", ".", "p", "u", "b">>

\* SSHKeyPattern, ^id_.+$ : "id_", then one or more characters, none a
\* line break.
SSHKeyPattern(name) ==
  /\ Len(name) >= 4
  /\ SubSeq(name, 1, 3) = <<"i", "d", "_">>
  /\ \A i \in 4..Len(name) : name[i] # "\n"

\* SSHPublicKeyPattern, ^id_.+\.pub$ : "id_", one or more characters, ".pub".
SSHPublicKeyPattern(name) ==
  /\ Len(name) >= 8
  /\ SubSeq(name, 1, 3) = <<"i", "d", "_">>
  /\ SubSeq(name, Len(name) - 3, Len(name)) = <<".", "p", "u", "b">>
  /\ \A i \in 4..(Len(name) - 4) : name[i] # "\n"

\* path.Base of a path: its last component ("/" of "/", "." of ".").
Base(p) == p[Len(p)]

\* filepath.Dir of a path: all but the last component; "." for a relative
\* path of one component, "/" for "/" and for a child of "/".
Dir(p) ==
  IF Len(p) >= 2 THEN SubSeq(p, 1, Len(p) - 1)
  ELSE IF p = <<Slash>> THEN <<Slash>> ELSE <<Dot>>

\* filepath.Join(path, name) as filepath.Walk calls it: the result is
\* cleaned, so a leading "." is dropped.
Join(p, name) == IF p = <<Dot>> THEN <<name>> ELSE Append(p, name)

\* The absolute path a path names in the working directory wd.
Abs(wd, p) ==
  IF p[1] = Slash THEN p ELSE IF p = <<Dot>> THEN wd ELSE wd \o p

IsPrefix(s, t) == Len(s) <= Len(t) /\ SubSeq(t, 1, Len(s)) = s

\* The order of the characters in use (their ASCII order), and the order
\* of strings sort.Strings sorts by.
Alphabet ==
  <<".", "/", "_", "a", "b", "c", "d", "e", "f", "g", "h", "i", "j", "k",
    "l", "m", "n", "o", "p", "q", "r", "s", "t", "u", "v", "w", "x", "y", "z">>

Ord(c) == CHOOSE i \in 1..Len(Alphabet) : Alphabet[i] = c

RECURSIVE StrLess(_, _)
StrLess(a, b) ==
  IF b = <<>> THEN FALSE
  ELSE IF a = <<>> THEN TRUE
  ELSE IF a[1] # b[1] THEN Ord(a[1]) < Ord(b[1])
  ELSE StrLess(Tail(a), Tail(b))

\* readDirNames of filepath.Walk: the names of a directory, sorted.
RECURSIVE SortStrings(_)
SortStrings(S) ==
  IF S = {} THEN <<>>
  ELSE LET m == CHOOSE x \in S : \A y \in S \ {x} : StrLess(x, y)
       IN  <<m>> \o SortStrings(S \ {m})

(***************************************************************************)
(* The environment: the file systems considered                            *)
(***************************************************************************)

\* No os.FileInfo: what Lstat returns with an error.
NilInfo == [nil |-> TRUE, name |-> <<>>, mode |-> 0, isDir |-> FALSE]

FileInfo(n, m, d) == [nil |-> FALSE, name |-> n, mode |-> m, isDir |-> d]

HomePath == <<Slash, homeName>>
SSHPath == <<Slash, homeName, dotssh>>

\* The names a directory may hold.
Pool(abs) ==
  IF abs = <<Slash>> THEN {homeName}
  ELSE IF abs = HomePath THEN {dotssh, config, authorized_keys}
  ELSE IF abs = SSHPath THEN {config, id_k, id_k_pub, id__pub, known_hosts}
  ELSE {}

\* The modes an entry may have.
Modes(abs) ==
  IF abs \in {<<Slash>>, HomePath}
    THEN {Octal(<<0, 7, 5, 5>>), Octal(<<0, 7, 0, 0>>)}
  ELSE IF abs = SSHPath
    THEN {Octal(<<0, 7, 0, 0>>), Octal(<<0, 7, 5, 5>>),
          ModeSetgid + Octal(<<0, 7, 0, 0>>)}
  ELSE {Octal(<<0, 4, 0, 0>>), Octal(<<0, 6, 0, 0>>), Octal(<<0, 6, 4, 4>>)}

\* Whether an entry may be a directory, and may be something else.
Kinds(abs, wd) ==
  IF abs \in {<<Slash>>, HomePath} THEN {TRUE}
  ELSE IF abs = SSHPath THEN (IF IsPrefix(abs, wd) THEN {TRUE} ELSE BOOLEAN)
  ELSE {FALSE}

\* os.Lstat of the path p (of the absolute path abs): a FileInfo with the
\* base name of p, or an error with no FileInfo.  The working directory
\* and what is above it exist.
LstatResults(p, abs, wd) ==
  {[info |-> FileInfo(Base(p), m, d), err |-> "nil"] :
     m \in Modes(abs), d \in Kinds(abs, wd)}
  \cup (IF IsPrefix(abs, wd) THEN {}
        ELSE {[info |-> NilInfo, err |-> "lstat"]})

\* The read of a directory: its names, sorted, or an error and no names.
ReadDirResults(abs) ==
  {[names |-> SortStrings(S), err |-> "nil"] :
     S \in {T \in SUBSET Pool(abs) : Cardinality(T) <= MaxFiles}}
  \cup {[names |-> <<>>, err |-> "open"]}

\* os.UserHomeDir: $HOME, or an error when it is not set.
UserHomeDirResults ==
  {[home |-> h, err |-> "nil"] : h \in {<<Slash>>, HomePath}}
  \cup {[home |-> <<>>, err |-> "nohome"]}

\* The working directories and, in each, the roots scanned.
Cwds == {<<Slash>>, HomePath, SSHPath}

Roots(wd) ==
  IF wd = <<Slash>> THEN {<<Slash>>}
  ELSE IF wd = HomePath THEN {<<dotssh>>, <<dotssh, id_k>>}
  ELSE {<<Dot>>, <<id_k>>, <<config>>, <<known_hosts>>}

(***************************************************************************)
(* The rules                                                               *)
(***************************************************************************)

\* fmt.Sprintf("%s: expected chmod <expected>, got %04o", pth, mode): the
\* message, by its three parts.
Warning(pth, expected, mode) ==
  [pth |-> pth, expected |-> expected, got |-> Sprintf04o(mode)]

\* ScanSSH comparing the whole mode, not cut to the permission bits.
ScanSSHFullMode(o, pth, info) ==
  IF info.name = dotssh
    THEN LET mode == info.mode
         IN  IF mode # Octal(<<0, 7, 0, 0>>)
               THEN <<Warning(pth, <<0, 7, 0, 0>>, mode)>>
               ELSE <<>>
    ELSE <<>>

\* ScanSSH passing over what is not a directory.
ScanSSHDirsOnly(o, pth, info) ==
  IF info.name = dotssh /\ info.isDir
    THEN LET mode == info.mode % Octal(<<0, 1, 0, 0, 0>>)
         IN  IF mode # Octal(<<0, 7, 0, 0>>)
               THEN <<Warning(pth, <<0, 7, 0, 0>>, mode)>>
               ELSE <<>>
    ELSE <<>>

\* ScanSSH analyzes .ssh directories.
ScanSSH(o, pth, info) ==
  IF info.name = dotssh
    THEN LET mode == info.mode % Octal(<<0, 1, 0, 0, 0>>)
         IN  IF mode # Octal(<<0, 7, 0, 0>>)
               THEN <<Warning(pth, <<0, 7, 0, 0>>, mode)>>
               ELSE <<>>
    ELSE <<>>

\* ScanSSHConfig without the test of the parent directory.
ScanSSHConfigAnywhere(o, pth, info) ==
  IF info.name = config
    THEN LET mode == info.mode % Octal(<<0, 1, 0, 0, 0>>)
         IN  IF mode # Octal(<<0, 4, 0, 0>>)
               THEN <<Warning(pth, <<0, 4, 0, 0>>, mode)>>
               ELSE <<>>
    ELSE <<>>

\* ScanSSHConfig analyzes .ssh/config files.
ScanSSHConfig(o, pth, info) ==
  IF info.name = config
    THEN LET parent == Base(Dir(pth))
             mode == info.mode % Octal(<<0, 1, 0, 0, 0>>)
         IN  IF parent = dotssh /\ mode # Octal(<<0, 4, 0, 0>>)
               THEN <<Warning(pth, <<0, 4, 0, 0>>, mode)>>
               ELSE <<>>
    ELSE <<>>

\* ScanSSHKeys analyzes .ssh/id_.+(\.pub)? files.
ScanSSHKeys(o, pth, info) ==
  LET name == info.name
      parent == Base(Dir(pth))
      mode == info.mode % Octal(<<0, 1, 0, 0, 0>>)
  IN  IF SSHKeyPattern(name) /\ parent = dotssh
        THEN IF SSHPublicKeyPattern(name)
               THEN IF mode # Octal(<<0, 6, 4, 4>>)
                      THEN <<Warning(pth, <<0, 6, 4, 4>>, mode)>>
                      ELSE <<>>
               ELSE IF mode # Octal(<<0, 6, 0, 0>>)
                      THEN <<Warning(pth, <<0, 6, 0, 0>>, mode)>>
                      ELSE <<>>
        ELSE <<>>

\* ScanSSHAuthorizedKeys with the test of the parent directory that the
\* rules of the keys and of config make.
ScanSSHAuthorizedKeysUnderSSH(o, pth, info) ==
  IF info.name = authorized_keys /\ Base(Dir(pth)) = dotssh
    THEN LET mode == info.mode % Octal(<<0, 1, 0, 0, 0>>)
         IN  IF mode # Octal(<<0, 6, 0, 0>>)
               THEN <<Warning(pth, <<0, 6, 0, 0>>, mode)>>
               ELSE <<>>
    ELSE <<>>

\* ScanSSHAuthorizedKeys analyzes authorized_keys files.
ScanSSHAuthorizedKeys(o, pth, info) ==
  IF info.name = authorized_keys
    THEN LET mode == info.mode % Octal(<<0, 1, 0, 0, 0>>)
         IN  IF mode # Octal(<<0, 6, 0, 0>>)
               THEN <<Warning(pth, <<0, 6, 0, 0>>, mode)>>
               ELSE <<>>
    ELSE <<>>

\* ScanSSHKnownHosts analyzes known_hosts files.
ScanSSHKnownHosts(o, pth, info) ==
  IF info.name = known_hosts
    THEN LET mode == info.mode % Octal(<<0, 1, 0, 0, 0>>)
         IN  IF mode # Octal(<<0, 6, 4, 4>>)
               THEN <<Warning(pth, <<0, 6, 4, 4>>, mode)>>
               ELSE <<>>
    ELSE <<>>

\* ScanHome analyzes home directories: info.Name() == o.Home compares the
\* base name with the whole string of the home directory, which a path of
\* one component equals and no other.
ScanHome(o, pth, info) ==
  IF <<info.name>> = o.Home
    THEN LET mode == info.mode % Octal(<<0, 1, 0, 0, 0>>)
         IN  IF mode # Octal(<<0, 7, 5, 5>>)
               THEN <<Warning(pth, <<0, 7, 5, 5>>, mode)>>
               ELSE <<>>
    ELSE <<>>

\* Walk putting what the rules return before the warnings it holds.
WalkPrepends(o, pth, info, err) ==
  IF info.nil
    THEN [panicked |-> TRUE, o |-> o, ret |-> "nil"]
    ELSE [panicked |-> FALSE,
          o |-> [o EXCEPT !.Warnings =
                   ScanSSH(o, pth, info) \o ScanSSHConfig(o, pth, info)
                   \o ScanSSHKeys(o, pth, info)
                   \o ScanSSHAuthorizedKeys(o, pth, info)
                   \o ScanSSHKnownHosts(o, pth, info)
                   \o ScanHome(o, pth, info) \o @],
          ret |-> "nil"]

\* Walk, the callback of filepath.Walk: the rules in turn, each appending
\* to o.Warnings; err is not read and nil is returned.  With no FileInfo
\* the first info.Name() is a nil dereference: the goroutine panics.
Walk(o, pth, info, err) ==
  IF info.nil
    THEN [panicked |-> TRUE, o |-> o, ret |-> "nil"]
    ELSE [panicked |-> FALSE,
          o |-> [o EXCEPT !.Warnings =
                   @ \o ScanSSH(o, pth, info) \o ScanSSHConfig(o, pth, info)
                     \o ScanSSHKeys(o, pth, info)
                     \o ScanSSHAuthorizedKeys(o, pth, info)
                     \o ScanSSHKnownHosts(o, pth, info)
                     \o ScanHome(o, pth, info)],
          ret |-> "nil"]

\* Report's status with the error left out.
ReportStatusWarningsOnly(warnings, err) ==
  IF Len(warnings) # 0 THEN 1 ELSE 0

\* Report's status, from what Scan returned.
ReportStatus(warnings, err) ==
  IF Len(warnings) # 0 THEN 1 ELSE IF err # "nil" THEN 1 ELSE 0

\* What Scan returns after filepath.Walk returned err.
ScanResult(o, err) ==
  IF err # "nil" /\ err # "EOF"
    THEN [warnings |-> o.Warnings, err |-> err]
    ELSE [warnings |-> o.Warnings, err |-> "nil"]

(***************************************************************************)
(* Scan and Report, step by step: one step for each call of the callback   *)
(***************************************************************************)

NoScanner == [Warnings |-> <<>>, Home |-> <<>>]
NoResult == [warnings |-> <<>>, err |-> "nil"]
NoRead == [names |-> <<>>, err |-> "nil"]

Init ==
  /\ cwd \in Cwds
  /\ root \in Roots(cwd)
  /\ pc = "start"
  /\ scanner = NoScanner
  /\ stack = <<>>
  /\ walkErr = "nil"
  /\ ret = NoResult
  /\ status = -1
  /\ visited = <<>>

\* The loops of walk that have no name left return nil.
RECURSIVE Unwind(_)
Unwind(s) ==
  IF s = <<>> THEN s
  ELSE IF s[Len(s)].names = <<>> THEN Unwind(SubSeq(s, 1, Len(s) - 1))
  ELSE s

\* filepath.Walk and walk at one entry: lerr is Lstat's error, rd the read
\* of the directory (of a directory only), rest the loops that go on after
\* the entry.  The callback gets Lstat's error or that of the read; walk
\* descends only when both the read and the callback gave no error, and a
\* callback's error ends the whole walk.
Visit(pth, abs, info, lerr, rd, rest) ==
  LET err == IF lerr # "nil" THEN lerr ELSE rd.err
      r == Walk(scanner, pth, info, err)
      down == IF lerr = "nil" /\ info.isDir /\ rd.err = "nil"
                THEN Append(rest, [path |-> pth, abs |-> abs, names |-> rd.names])
                ELSE rest
      left == Unwind(down)
  IN  /\ visited' = Append(visited, [pth |-> pth, abs |-> abs, info |-> info, err |-> err])
      /\ IF r.panicked
           THEN /\ pc' = "panic"
                /\ UNCHANGED <<scanner, walkErr>>
                /\ stack' = rest
           ELSE /\ scanner' = r.o
                /\ IF r.ret # "nil"
                     THEN pc' = "walked" /\ walkErr' = r.ret /\ stack' = <<>>
                     ELSE /\ stack' = left
                          /\ walkErr' = "nil"
                          /\ pc' = IF left = <<>> THEN "walked" ELSE "walking"
      /\ UNCHANGED <<cwd, root, ret, status>>

\* The reads that may follow an Lstat: of a directory, one of its reads.
Reads(st, abs) ==
  IF st.err = "nil" /\ st.info.isDir THEN ReadDirResults(abs) ELSE {NoRead}

\* Scan: NewScanner fails, and Scan returns no warning and the error.
ScanNoHome ==
  /\ pc = "start"
  /\ \E h \in UserHomeDirResults :
       /\ h.err # "nil"
       /\ ret' = [warnings |-> <<>>, err |-> h.err]
  /\ pc' = "returned"
  /\ UNCHANGED <<cwd, root, scanner, stack, walkErr, status, visited>>

\* Scan: NewScanner returns a Scanner with the home directory.
ScanNewScanner ==
  /\ pc = "start"
  /\ \E h \in UserHomeDirResults :
       /\ h.err = "nil"
       /\ scanner' = [Warnings |-> <<>>, Home |-> h.home]
  /\ pc' = "walk"
  /\ UNCHANGED <<cwd, root, stack, walkErr, ret, status, visited>>

\* filepath.Walk(root, scanner.Walk): Lstat of the root and its visit.
WalkRoot ==
  /\ pc = "walk"
  /\ LET abs == Abs(cwd, root)
     IN  \E st \in LstatResults(root, abs, cwd) :
           \E rd \in Reads(st, abs) :
             Visit(root, abs, st.info, st.err, rd, <<>>)

\* walk's loop: the next name of the innermost directory, its Lstat and
\* its visit.
WalkChild ==
  /\ pc = "walking"
  /\ LET n == Len(stack)
         f == stack[n]
         name == Head(f.names)
         filename == Join(f.path, name)
         abs == Append(f.abs, name)
         rest == [stack EXCEPT ![n].names = Tail(f.names)]
     IN  \E st \in LstatResults(filename, abs, cwd) :
           \E rd \in Reads(st, abs) :
             Visit(filename, abs, st.info, st.err, rd, rest)

\* Scan returns the warnings and the error of the walk.
ScanReturn ==
  /\ pc = "walked"
  /\ ret' = ScanResult(scanner, walkErr)
  /\ pc' = "returned"
  /\ UNCHANGED <<cwd, root, scanner, stack, walkErr, status, visited>>

\* Report prints what Scan returned and returns the status.
Report ==
  /\ pc = "returned"
  /\ status' = ReportStatus(ret.warnings, ret.err)
  /\ pc' = "done"
  /\ UNCHANGED <<cwd, root, scanner, stack, walkErr, ret, visited>>

Next ==
  \/ ScanNoHome
  \/ ScanNewScanner
  \/ WalkRoot
  \/ WalkChild
  \/ ScanReturn
  \/ Report

Spec == Init /\ [][Next]_vars

(***************************************************************************)
(* What the claims speak of                                                *)
(***************************************************************************)

\* The entries the callback was called with.
Entries == {visited[i] : i \in 1..Len(visited)}

\* The entries that came with a FileInfo: those the rules ran on.
Seen == {e \in Entries : ~e.info.nil}

\* The discrepancies naming a path, in the order of the list.
For(pth) == LET names(w) == w.pth = pth IN SelectSeq(scanner.Warnings, names)

\* Those among them that expect the mode x.
ForExpecting(pth, x) ==
  LET hit(w) == w.pth = pth /\ w.expected = x IN SelectSeq(scanner.Warnings, hit)

\* The nine permission bits of a mode.
PermBits(m) == m % (2 ^ 9)

\* The twelve bits of a Unix mode: the permission bits and, above them,
\* the sticky, setgid and setuid bits.
Unix12(m) ==
  PermBits(m) + (2 ^ 9) * ((m \div ModeSticky) % 2)
  + (2 ^ 10) * ((m \div ModeSetgid) % 2) + (2 ^ 11) * ((m \div ModeSetuid) % 2)

\* The name of the directory an entry is in, by the path it was visited
\* under (the parent directory name of a FileEntry).
ParentName(e) == Base(Dir(e.pth))

\* The name of the directory that holds the entry in the file system.
HolderName(e) == Base(Dir(e.abs))

\* The place of an entry in the order of the visits.
VisitIndex(pth) == CHOOSE i \in 1..Len(visited) : visited[i].pth = pth

Bit(b) == IF b THEN 1 ELSE 0

(***************************************************************************)
(* The claims                                                              *)
(***************************************************************************)

\* The root could not be found: Lstat of the root gave an error.
RootMissing == Len(visited) >= 1 /\ visited[1].err = "lstat"

\* C1: a scan of a root that does not exist completes, Scan returns no
\* discrepancy and a non-nil error, and Report returns 1.
C1_MissingRootReported ==
  RootMissing =>
    /\ pc # "panic"
    /\ pc \in {"returned", "done"} => ret.warnings = <<>> /\ ret.err # "nil"
    /\ pc = "done" => status = 1

\* An entry below the root at which the traversal failed: it vanished
\* before its Lstat, or it is a directory that could not be read.
FailedAt(e) == e.err # "nil" /\ ~(e = visited[1] /\ e.err = "lstat")

\* C2: when the traversal fails at an entry, nothing beneath that entry is
\* visited, and Scan returns every discrepancy collected so far and a
\* non-nil error.
C2_TraversalErrorReturned ==
  \A e \in Entries :
    FailedAt(e) =>
      /\ \A d \in Entries : d # e => ~IsPrefix(e.abs, d.abs)
      /\ pc # "panic"
      /\ pc \in {"returned", "done"} =>
           ret.warnings = scanner.Warnings /\ ret.err # "nil"

\* C3: a file held by a .ssh directory whose name matches ^id_.+$ gets,
\* from whatever root it was reached, one discrepancy expecting 0644 (a
\* name matching ^id_.+\.pub$) or 0600 (any other) when its mode differs,
\* and none when it does not.
C3_KeysUnderSSHAnyRoot ==
  \A e \in Seen :
    (HolderName(e) = dotssh /\ SSHKeyPattern(e.info.name)) =>
      LET x == IF SSHPublicKeyPattern(e.info.name)
                 THEN <<0, 6, 4, 4>> ELSE <<0, 6, 0, 0>>
      IN  /\ Len(For(e.pth)) = Bit(PermBits(e.info.mode) # Octal(x))
          /\ \A i \in 1..Len(For(e.pth)) : For(e.pth)[i].expected = x

\* C4: the home rule fires for an entry exactly when its base name is the
\* base name of the home directory the Scanner holds: one discrepancy
\* expecting 0755 when the mode differs, none when it is 0755.
C4_HomeRuleByBaseName ==
  \A e \in Seen :
    Len(ForExpecting(e.pth, <<0, 7, 5, 5>>)) =
      Bit(/\ e.info.name = Base(scanner.Home)
          /\ PermBits(e.info.mode) # Octal(<<0, 7, 5, 5>>))

\* The modes the rules expect of an entry, as the rules classify it.
Expected(e) ==
  {x \in {<<0, 7, 0, 0>>} : e.info.name = dotssh}
  \cup {x \in {<<0, 4, 0, 0>>} : e.info.name = config /\ ParentName(e) = dotssh}
  \cup {x \in {<<0, 6, 4, 4>>} :
          SSHPublicKeyPattern(e.info.name) /\ ParentName(e) = dotssh}
  \cup {x \in {<<0, 6, 0, 0>>} :
          /\ SSHKeyPattern(e.info.name)
          /\ ~SSHPublicKeyPattern(e.info.name)
          /\ ParentName(e) = dotssh}
  \cup {x \in {<<0, 6, 0, 0>>} : e.info.name = authorized_keys}
  \cup {x \in {<<0, 6, 4, 4>>} : e.info.name = known_hosts}
  \cup {x \in {<<0, 7, 5, 5>>} : <<e.info.name>> = scanner.Home}

\* C5, as claimed: the mode compared and printed is the entry's mode cut to
\* the nine permission bits and the sticky, setgid and setuid bits, and a
\* mismatch with the expected mode gives one discrepancy of the rule.
C5_TwelveBitsCompared ==
  \A e \in Seen :
    \A x \in Expected(e) :
      /\ Len(ForExpecting(e.pth, x)) = Bit(Unix12(e.info.mode) # Octal(x))
      /\ \A i \in 1..Len(For(e.pth)) :
           For(e.pth)[i].got = Sprintf04o(Unix12(e.info.mode))

\* C5, amended: the mode compared and printed is the entry's mode cut to
\* its nine permission bits (Mode() % 01000), the sticky, setgid and setuid
\* bits taking no part; a mismatch of that value with the expected mode
\* gives one discrepancy of the rule, and a match none.
C5_NineBitsCompared ==
  \A e \in Seen :
    /\ \A x \in Expected(e) :
         Len(ForExpecting(e.pth, x)) = Bit(PermBits(e.info.mode) # Octal(x))
    /\ \A i \in 1..Len(For(e.pth)) :
         /\ For(e.pth)[i].got = Sprintf04o(PermBits(e.info.mode))
         /\ For(e.pth)[i].expected \in Expected(e)

\* A .ssh with the setgid bit and the permission bits 0700 was visited,
\* and no discrepancy names it.
C5_Witness ==
  \E e \in Seen :
    /\ e.info.name = dotssh
    /\ e.info.mode = ModeSetgid + Octal(<<0, 7, 0, 0>>)
    /\ For(e.pth) = <<>>

C7_SSHDirByName ==
  \A e \in Seen :
    e.info.name = dotssh =>
      /\ Len(For(e.pth)) = Bit(PermBits(e.info.mode) # Octal(<<0, 7, 0, 0>>))
      /\ \A i \in 1..Len(For(e.pth)) : For(e.pth)[i].expected = <<0, 7, 0, 0>>

\* A .ssh that is no directory, of a mode other than 0700, has its one
\* discrepancy.
C7_Witness ==
  \E e \in Seen :
    /\ e.info.name = dotssh
    /\ ~e.info.isDir
    /\ PermBits(e.info.mode) # Octal(<<0, 7, 0, 0>>)
    /\ Len(For(e.pth)) = 1

C9_NameAloneRules ==
  \A e \in Seen :
    /\ e.info.name = authorized_keys =>
         Len(ForExpecting(e.pth, <<0, 6, 0, 0>>)) =
           Bit(PermBits(e.info.mode) # Octal(<<0, 6, 0, 0>>))
    /\ e.info.name = known_hosts =>
         Len(ForExpecting(e.pth, <<0, 6, 4, 4>>)) =
           Bit(PermBits(e.info.mode) # Octal(<<0, 6, 4, 4>>))

\* An authorized_keys outside any .ssh, of a mode other than 0600, has its
\* discrepancy.
C9_Witness ==
  \E e \in Seen :
    /\ e.info.name = authorized_keys
    /\ ParentName(e) # dotssh /\ HolderName(e) # dotssh
    /\ PermBits(e.info.mode) # Octal(<<0, 6, 0, 0>>)
    /\ Len(ForExpecting(e.pth, <<0, 6, 0, 0>>)) = 1

\* The discrepancies are in the order of the visits of their entries, and
\* that of a directory is before those of what it holds.
InVisitOrder(ws) ==
  \A i \in 1..Len(ws), j \in 1..Len(ws) :
    /\ i < j => VisitIndex(ws[i].pth) <= VisitIndex(ws[j].pth)
    /\ (/\ visited[VisitIndex(ws[i].pth)].abs # visited[VisitIndex(ws[j].pth)].abs
        /\ IsPrefix(visited[VisitIndex(ws[i].pth)].abs,
                    visited[VisitIndex(ws[j].pth)].abs)) => i < j

====
